---- MODULE Spec2Model ----
(***************************************************************************)
(* IRIS drafting agent (src/main.py): a FastAPI service that turns an idea *)
(* into an outline and a draft through one call to a text generation API,  *)
(* and keeps each result as one JSON file named by a wall-clock timestamp. *)
(*                                                                         *)
(* Text is modelled as a sequence of tokens.  The fence marker, the word   *)
(* json, white space, prose and whole JSON texts are single tokens, so     *)
(* that str.split, str.strip, the "in" test and json.loads are computed as *)
(* the code computes them.                                                 *)
(***************************************************************************)
EXTENDS Integers, Sequences, FiniteSets, TLC

\* ------------------------------------------------------------------ bounds
\* The wall clock reads 0..MaxClock (microsecond ticks).
MaxClock == 2
\* Worker threads handling requests concurrently.
MaxInflight == 2
\* Longest canned upstream reply, in tokens.
MaxReplyLen == 5
\* Summary fields are tried this many characters around the truncation limit.
MaxExtra == 2

\* ------------------------------------------------------- program constants
MinTargetLength == 400
MaxTargetLength == 1300
DefaultTargetLength == 800
SummaryLimit == 500
WordCountEstimate == 800
VoiceScore == 85
DefaultLimit == 20
MaxPhrases == 3

VARIABLES
    voiceFile,      \* content of DATA_DIR/voiceprint.json
    proc,           \* "starting", "up" or "crashed"
    params,         \* voiceprint.params
    clock,          \* what datetime.now() returns
    outlines,       \* OUTLINES_DIR: file name -> document
    drafts,         \* DRAFTS_DIR: file name -> document
    inflight,       \* per worker thread: the request waiting on the generation API
    resp,           \* the response sent last
    apiCalls,       \* calls made to the generation API
    fileWrites,     \* files opened for writing
    issued,         \* the documents successful create requests returned
    response_text,  \* generate_outline: message.content[0].text
    json_str,       \* generate_outline: the text handed to json.loads
    outline_data,   \* generate_outline: what json.loads returned
    idea,           \* the idea a prompt is built for
    prompt,         \* the fields interpolated into the prompt
    pc              \* where the parsing or the prompt building stands

vars == <<voiceFile, proc, params, clock, outlines, drafts, inflight, resp,
          apiCalls, fileWrites, issued, response_text, json_str, outline_data,
          idea, prompt, pc>>

serverVars == <<voiceFile, proc, params, clock, outlines, drafts, inflight, resp,
                apiCalls, fileWrites, issued>>
pureVars == <<response_text, json_str, outline_data, idea, prompt, pc>>

\* Python's None, and the value of a local not assigned yet.
None == "None"
Unset == "unset"

Min(a, b) == IF a < b THEN a ELSE b
Max(a, b) == IF a > b THEN a ELSE b

\* ------------------------------------------------------------ str methods
\* The markdown fence marker, three backquotes.
Fence == "fence"
JsonTag == "json"
Space == " "
Prose == "prose"

\* s[:n] for n >= 0
Take(s, n) == SubSeq(s, 1, Min(n, Len(s)))

\* sep in s: the least index where sep occurs in s, 0 when it does not
Find(s, sep) ==
    LET hits == {i \in 1..(Len(s) - Len(sep) + 1) : SubSeq(s, i, i + Len(sep) - 1) = sep}
    IN  IF hits = {} THEN 0 ELSE CHOOSE i \in hits : \A j \in hits : i <= j

Contains(s, sep) == Find(s, sep) # 0

\* s.split(sep): the parts between the occurrences of sep, left to right
RECURSIVE Split(_, _)
Split(s, sep) ==
    LET i == Find(s, sep)
    IN  IF i = 0 THEN <<s>>
        ELSE <<SubSeq(s, 1, i - 1)>> \o Split(SubSeq(s, i + Len(sep), Len(s)), sep)

\* s.strip(): s without its leading and trailing white space
RECURSIVE LStrip(_)
LStrip(s) == IF s # <<>> /\ Head(s) = Space THEN LStrip(Tail(s)) ELSE s

RECURSIVE RStrip(_)
RStrip(s) ==
    IF s # <<>> /\ s[Len(s)] = Space THEN RStrip(SubSeq(s, 1, Len(s) - 1)) ELSE s

Strip(s) == RStrip(LStrip(s))

\* len(s.split()): the number of maximal runs of non-space tokens
WordCount(s) ==
    Cardinality({i \in 1..Len(s) : s[i] # Space /\ (i = 1 \/ s[i - 1] = Space)})

\* ------------------------------------------------- outline JSON extraction
\* A mutant: the untagged fence is tried before the tagged one.
ExtractJsonAnyFenceFirst(text) ==
    IF Contains(text, <<Fence>>)
    THEN Strip(Split(Split(text, <<Fence>>)[2], <<Fence>>)[1])
    ELSE text

ExtractJson(text) ==
    IF Contains(text, <<Fence, JsonTag>>)
    THEN Strip(Split(Split(text, <<Fence, JsonTag>>)[2], <<Fence>>)[1])
    ELSE IF Contains(text, <<Fence>>)
    THEN Strip(Split(Split(text, <<Fence>>)[2], <<Fence>>)[1])
    ELSE text

\* The JSON texts the generation API is made to answer with, and their values.
FullSections ==
    << [heading |-> "Define", key_points |-> <<"d1", "d2">>],
       [heading |-> "Contrast", key_points |-> <<"c1", "c2">>],
       [heading |-> "Synthesize", key_points |-> <<"s1", "s2">>],
       [heading |-> "Project", key_points |-> <<"p1", "p2">>] >>

JsonValue ==
    [ full        |-> [t |-> "object", v |-> [hook |-> "h", sections |-> FullSections, closing |-> "c"]],
      nosections  |-> [t |-> "object", v |-> [hook |-> "h", closing |-> "c"]],
      noheading   |-> [t |-> "object", v |-> [hook |-> "h", sections |-> <<[key_points |-> <<"d1">>]>>, closing |-> "c"]],
      nokeypoints |-> [t |-> "object", v |-> [hook |-> "h", sections |-> <<[heading |-> "Define"]>>, closing |-> "c"]],
      nohook      |-> [t |-> "object", v |-> [sections |-> <<>>, closing |-> "c"]],
      noclosing   |-> [t |-> "object", v |-> [hook |-> "h", sections |-> <<>>]],
      array       |-> [t |-> "array", v |-> <<>>] ]

JsonTexts == DOMAIN JsonValue

\* json.loads(s): white space around the one JSON text is allowed
JsonLoads(s) ==
    LET b == Strip(s)
    IN  IF Len(b) = 1 /\ b[1] \in JsonTexts
        THEN [ok |-> TRUE, value |-> JsonValue[b[1]]]
        ELSE [ok |-> FALSE, error |-> "JSONDecodeError"]

\* ------------------------------------------------ specification: parsing
ParseTokens == {Fence, JsonTag, Space, Prose, "full"}

RECURSIVE SeqsUpTo(_, _)
SeqsUpTo(S, n) ==
    IF n = 0 THEN {<<>>}
    ELSE LET shorter == SeqsUpTo(S, n - 1)
         IN  shorter \cup {Append(s, x) : s \in {q \in shorter : Len(q) = n - 1}, x \in S}

Replies == SeqsUpTo(ParseTokens, MaxReplyLen)

\* ------------------------------------------------------------ identifiers
\* strftime('%Y%m%d_%H%M%S_%f'): zero padded, fixed width, decimal digits
Stamp(t) == <<t \div 10, t % 10>>

\* f"outline_{...}" and f"draft_{...}"; the file is named <identifier>.json
OutlineId(t) == [prefix |-> "outline", stamp |-> Stamp(t)]
DraftId(t) == [prefix |-> "draft", stamp |-> Stamp(t)]

\* str comparison of two identifiers of one prefix: digit by digit
StampLess(a, b) ==
    \E i \in 1..Min(Len(a), Len(b)) :
        /\ a[i] < b[i]
        /\ \A j \in 1..(i - 1) : a[j] = b[j]

\* ------------------------------------------------------------- VoicePrint
DefaultVoiceprint ==
    [ voice_parameters |->
        [tone_markers |-> [analytical |-> 800, conversational |-> 650, technical |-> 750]],
      structure_preferences |-> [body_pattern |-> "define_contrast_synthesize_project"] ]

\* A voiceprint.json with every field the renderer reads.
RichVoiceprint ==
    [ voice_parameters |->
        [tone_markers |-> [analytical |-> 904, conversational |-> 296],
         common_phrases |-> <<"ph1", "ph2", "ph3", "ph4">>],
      structure_preferences |-> [body_pattern |-> "story"],
      example_snippets |-> [opening |-> "o", closing |-> "z"] ]

\* What voiceprint.json may hold: nothing (no file), text that is no JSON, or a
\* JSON text.  VoiceJson is json.load of each JSON text: t is the type, v the value.
VoiceFiles == {"absent", "malformed", "null", "number", "array", "emptyobject", "richobject"}

VoiceJson ==
    [ null        |-> [t |-> "null", v |-> None],
      number      |-> [t |-> "number", v |-> 7],
      array       |-> [t |-> "array", v |-> <<>>],
      emptyobject |-> [t |-> "object", v |-> <<>>],
      richobject  |-> [t |-> "object", v |-> RichVoiceprint] ]

\* A mutant: an unparsable file is taken for the defaults instead of raising.
LoadVoiceprintLenient(file) ==
    IF file \in {"absent", "malformed"}
    THEN [ok |-> TRUE, params |-> [t |-> "object", v |-> DefaultVoiceprint]]
    ELSE [ok |-> TRUE, params |-> VoiceJson[file]]

\* VoicePrint._load_voiceprint: the defaults, the parsed file, or the parse failure
LoadVoiceprint(file) ==
    IF file = "absent" THEN [ok |-> TRUE, params |-> [t |-> "object", v |-> DefaultVoiceprint]]
    ELSE IF file = "malformed" THEN [ok |-> FALSE, params |-> Unset]
    ELSE [ok |-> TRUE, params |-> VoiceJson[file]]

\* d.get(key, default) on a dict
Get(d, key, default) == IF key \in DOMAIN d THEN d[key] ELSE default

\* f"{w*100:.0f}" for a weight held in thousandths
Percent(w) == (w + 5) \div 10

\* VoicePrint.get_voice_prompt: the values interpolated into the voice text;
\* params that are no dict have no .get and raise
GetVoicePrompt(p) ==
    IF p.t # "object" THEN [ok |-> FALSE, error |-> "AttributeError"]
    ELSE
        LET vp == Get(p.v, "voice_parameters", <<>>)
            sp == Get(p.v, "structure_preferences", <<>>)
            examples == Get(p.v, "example_snippets", <<>>)
            tm == Get(vp, "tone_markers", <<>>)
        IN  [ ok |-> TRUE,
              tone |-> << Percent(Get(tm, "analytical", 800)),
                          Percent(Get(tm, "conversational", 650)),
                          Percent(Get(tm, "technical", 750)) >>,
              phrases |-> Take(Get(vp, "common_phrases", <<>>), MaxPhrases),
              structure |-> Get(sp, "body_pattern", "define_contrast_synthesize_project"),
              snippets |-> << Get(examples, "opening", ""), Get(examples, "analytical", ""),
                              Get(examples, "conversational", ""), Get(examples, "closing", "") >> ]

\* health_check
HealthCheck(p) ==
    [ status |-> "ok", agent |-> "agent-iris", version |-> "1.0.0",
      voiceprint_loaded |-> (p.t # "null") ]

\* ---------------------------------------------------------------- prompts
\* Text whose length matters is a sequence of characters, here numbers.
Text(base, n) == [i \in 1..n |-> base + i]

\* An Optional[str] field: None, or a str (which may be empty).
Absent == [present |-> FALSE, text |-> <<>>]
Some(s) == [present |-> TRUE, text |-> s]

\* bool(x) of an Optional[str]: None and "" are falsy
Truthy(o) == o.present /\ o.text # <<>>

\* A mutant: the second field wins over the first.
OrTextSecondFirst(a, b) ==
    IF Truthy(b) THEN b.text ELSE IF Truthy(a) THEN a.text ELSE <<>>

\* a or b or ""
OrText(a, b) ==
    IF Truthy(a) THEN a.text ELSE IF Truthy(b) THEN b.text ELSE <<>>

\* content_url = idea.url or idea.source_url or ""
ContentUrl(i) == OrText(i.url, i.source_url)

\* content_summary = idea.content or idea.context or ""
ContentSummary(i) == OrText(i.content, i.context)

NL == "\n"
Placeholder == <<"No outline provided - generate structure as you write">>

\* sep.join(parts) for parts that are token sequences
RECURSIVE Join(_, _)
Join(parts, sep) ==
    IF parts = <<>> THEN <<>>
    ELSE IF Len(parts) = 1 THEN parts[1]
    ELSE parts[1] \o sep \o Join(Tail(parts), sep)

\* f"**{heading}**:{chr(10)}- " + chr(10) + "- ".join(key_points)
SectionText(sec) ==
    <<"**", sec.heading, "**:", NL, "- ", NL>>
        \o Join([k \in 1..Len(sec.key_points) |-> <<sec.key_points[k]>>], <<"- ">>)

\* outline = None
NoOutline == <<>>

\* generate_draft: the outline flattened into the prompt, or the placeholder
\* when "if outline" is false
OutlineText(outline) ==
    IF outline = NoOutline THEN Placeholder
    ELSE <<NL, "**Hook**: ", outline.hook, NL, NL>>
            \o Join([k \in 1..Len(outline.sections) |-> SectionText(outline.sections[k])], <<NL>>)
            \o <<NL, NL, "**Closing**: ", outline.closing, NL>>

\* generate_outline: the values interpolated into the outline prompt
OutlinePrompt(i, voice) ==
    [ task |-> "outline", voice |-> voice, title |-> i.title,
      source |-> ContentUrl(i), summary |-> Take(ContentSummary(i), SummaryLimit) ]

\* generate_draft: the values interpolated into the draft prompt
DraftPrompt(request, outline, voice) ==
    [ task |-> "draft", voice |-> voice, title |-> request.idea.title,
      source |-> ContentUrl(request.idea),
      summary |-> Take(ContentSummary(request.idea), SummaryLimit),
      outline_text |-> OutlineText(outline),
      target_length |-> request.target_length,
      include_hashtags |-> request.include_hashtags ]

NoPrompt == [task |-> "none"]

\* ------------------------------------------------------- request handling
\* An identifier is its prefix and its timestamp; an Optional[str] identifier
\* may also be None.
NoneId == [prefix |-> None, stamp |-> <<>>]

\* store[id] = doc added to store, as open(path, 'w') and json.dump leave it
WriteFile(store, id, doc) == (id :> doc) @@ store

HTTPException(status, detail) == [status |-> status, body |-> detail]
Ok(doc) == [status |-> 200, body |-> doc]

\* What a raised exception does to a store: nothing.
Failed(store, prefix, message) ==
    [ resp |-> HTTPException(500, <<prefix, message>>), store |-> store, wrote |-> FALSE ]

\* The first KeyError building the sections list and the response, "" when none:
\* outline_data["sections"], then per section "heading" and "key_points",
\* then outline_data["hook"] and outline_data["closing"].
MissingKey(d) ==
    IF "sections" \notin DOMAIN d THEN "sections"
    ELSE
        LET bad == {k \in 1..Len(d.sections) :
                        {"heading", "key_points"} \ DOMAIN d.sections[k] # {}}
        IN  IF bad # {}
            THEN LET k == CHOOSE x \in bad : \A y \in bad : x <= y
                 IN  IF "heading" \notin DOMAIN d.sections[k] THEN "heading" ELSE "key_points"
            ELSE IF "hook" \notin DOMAIN d THEN "hook"
            ELSE IF "closing" \notin DOMAIN d THEN "closing"
            ELSE ""

\* OutlineResponse(...).dict()
OutlineDoc(i, d, now) ==
    [ outline_id |-> OutlineId(now),
      idea_title |-> i.title,
      hook |-> d.hook,
      sections |-> [k \in 1..Len(d.sections) |->
                        [heading |-> d.sections[k].heading,
                         key_points |-> d.sections[k].key_points]],
      closing |-> d.closing,
      word_count_estimate |-> WordCountEstimate,
      created_at |-> now ]

\* A mutant: the file is written as soon as the reply parses as a JSON object,
\* before the required keys are looked up.
GenerateOutlineWriteFirst(i, outcome, now, store) ==
    LET fail(m) == Failed(store, "Outline generation failed: ", m)
    IN  IF outcome.raised THEN fail("APIError")
        ELSE
            LET parsed == JsonLoads(ExtractJson(outcome.text))
            IN  IF ~parsed.ok THEN fail(parsed.error)
                ELSE IF parsed.value.t # "object" THEN fail("TypeError")
                ELSE IF MissingKey(parsed.value.v) # ""
                THEN [ resp |-> HTTPException(500, <<"Outline generation failed: ",
                                                     MissingKey(parsed.value.v)>>),
                       store |-> WriteFile(store, OutlineId(now), parsed.value.v),
                       wrote |-> TRUE ]
                ELSE
                    LET doc == OutlineDoc(i, parsed.value.v, now)
                    IN  [ resp |-> Ok(doc),
                          store |-> WriteFile(store, doc.outline_id, doc),
                          wrote |-> TRUE ]

\* generate_outline from the return of the generation call on: the try block.
\* outcome is what anthropic.messages.create did, now what datetime.now() reads.
GenerateOutline(i, outcome, now, store) ==
    LET fail(m) == Failed(store, "Outline generation failed: ", m)
    IN  IF outcome.raised THEN fail("APIError")
        ELSE
            LET parsed == JsonLoads(ExtractJson(outcome.text))
            IN  IF ~parsed.ok THEN fail(parsed.error)
                ELSE IF parsed.value.t # "object" THEN fail("TypeError")
                ELSE IF MissingKey(parsed.value.v) # "" THEN fail(MissingKey(parsed.value.v))
                ELSE
                    LET doc == OutlineDoc(i, parsed.value.v, now)
                    IN  [ resp |-> Ok(doc),
                          store |-> WriteFile(store, doc.outline_id, doc),
                          wrote |-> TRUE ]

\* A mutant: only the lower end of the range is checked, and strictly.
ValidTargetLengthStrict(n) == n > MinTargetLength

\* Field(default=800, ge=400, le=1300)
ValidTargetLength(n) == n >= MinTargetLength /\ n <= MaxTargetLength

\* A mutant: the file is opened without the exists() check, and open() raises.
LoadOutlineNoExistsCheck(store, outline_id) ==
    IF outline_id.prefix \in {None, ""} THEN [ok |-> TRUE, outline |-> NoOutline]
    ELSE IF outline_id \in DOMAIN store THEN [ok |-> TRUE, outline |-> store[outline_id]]
    ELSE [ok |-> FALSE, outline |-> NoOutline]

\* generate_draft: "Load outline if provided"
LoadOutline(store, outline_id) ==
    IF outline_id.prefix \notin {None, ""} /\ outline_id \in DOMAIN store
    THEN [ok |-> TRUE, outline |-> store[outline_id]]
    ELSE [ok |-> TRUE, outline |-> NoOutline]

\* DraftResponse(...).dict()
DraftDoc(request, content, now) ==
    [ draft_id |-> DraftId(now),
      outline_id |-> request.outline_id,
      title |-> request.idea.title,
      content |-> content,
      word_count |-> WordCount(content),
      voice_score |-> VoiceScore,
      created_at |-> now,
      metadata |-> [ source_url |-> ContentUrl(request.idea),
                     target_length |-> request.target_length,
                     model |-> "claude-sonnet-4-20250514" ] ]

\* generate_draft from the return of the generation call on: the try block
GenerateDraft(request, outcome, now, store) ==
    IF outcome.raised THEN Failed(store, "Draft generation failed: ", "APIError")
    ELSE
        LET doc == DraftDoc(request, Strip(outcome.text), now)
        IN  [ resp |-> Ok(doc),
              store |-> WriteFile(store, doc.draft_id, doc),
              wrote |-> TRUE ]

\* get_draft
GetDraft(store, draft_id) ==
    IF draft_id \notin DOMAIN store
    THEN HTTPException(404, <<"Draft ", draft_id, " not found">>)
    ELSE Ok(store[draft_id])

\* get_outline
GetOutline(store, outline_id) ==
    IF outline_id \notin DOMAIN store
    THEN HTTPException(404, <<"Outline ", outline_id, " not found">>)
    ELSE Ok(store[outline_id])

\* sorted(paths, reverse=True)
RECURSIVE SortedReverse(_)
SortedReverse(ids) ==
    IF ids = {} THEN <<>>
    ELSE LET top == CHOOSE a \in ids : \A b \in ids \ {a} : StampLess(b.stamp, a.stamp)
         IN  <<top>> \o SortedReverse(ids \ {top})

\* s[:n]: a negative n counts from the end
Slice(s, n) == IF n >= 0 THEN Take(s, n) ELSE Take(s, Max(Len(s) + n, 0))

\* DRAFTS_DIR.glob("draft_*.json")
Glob(store) == {f \in DOMAIN store : f.prefix = "draft"}

\* list_drafts; st_mtime of a file is the time of the step that wrote it,
\* which is the document's created_at
ListDrafts(store, limit) ==
    LET page == Slice(SortedReverse(Glob(store)), limit)
    IN  Ok([ total |-> Cardinality(Glob(store)), returned |-> Len(page),
             drafts |-> [k \in 1..Len(page) |->
                            [draft_id |-> page[k], created_at |-> store[page[k]].created_at]] ])

\* ---------------------------------------------------------- the service
Threads == 1..MaxInflight
Idle == [kind |-> "idle"]

\* An uncaught exception: the framework answers 500 itself.
InternalServerError == [status |-> 500, body |-> <<"Internal Server Error">>]
\* A request body the declared fields reject.
ValidationError == [status |-> 422, body |-> <<"validation error">>]

IdeaA ==
    [ title |-> "A", content |-> Absent, source_url |-> Absent,
      url |-> Some(Text(0, 1)), context |-> Absent ]
IdeaB ==
    [ title |-> "B", content |-> Some(Text(100, 2)), source_url |-> Some(Text(50, 1)),
      url |-> Absent, context |-> Some(Text(200, 1)) ]
Ideas == {IdeaA, IdeaB}

OutlineRefs == {NoneId, OutlineId(1)}
TargetLengths ==
    {MinTargetLength - 1, MinTargetLength, MaxTargetLength, MaxTargetLength + 1}
DraftRequests ==
    [outline_id : OutlineRefs, idea : {IdeaA}, target_length : TargetLengths,
     include_hashtags : {FALSE}]
PathIds == {OutlineId(1), DraftId(2)}
Limits == {-1, 0, 1, DefaultLimit}

Raised == [raised |-> TRUE, text |-> <<>>]
Returned(text) == [raised |-> FALSE, text |-> text]

OutlineOutcomes ==
    {Raised} \cup
    { Returned(x) : x \in
        { <<Prose, Fence, JsonTag, Space, "full", Space, Fence, Prose>>,
          <<Fence, "full", Fence>>,
          <<"full">>,
          <<Prose, "full">>,
          <<"array">>, <<"nosections">>, <<"noheading">>, <<"nokeypoints">>,
          <<"nohook">>, <<"noclosing">> } }

DraftOutcomes == {Raised, Returned(<<Space, "w1", Space, "w2", Space>>)}

\* The worker the pool hands the next request to: the first idle one, 0 when
\* all are busy.
FreeThread ==
    LET idle == {t \in Threads : inflight[t] = Idle}
    IN  IF idle = {} THEN 0 ELSE CHOOSE t \in idle : \A u \in idle : t <= u

Tagged(to, arg, r) == [to |-> to, arg |-> arg, status |-> r.status, body |-> r.body]

\* The process before the module is imported, the data directories empty.
ServerInit ==
    /\ proc = "starting"
    /\ params = [t |-> "unset", v |-> None]
    /\ clock = 0
    /\ outlines = <<>>
    /\ drafts = <<>>
    /\ inflight = [t \in Threads |-> Idle]
    /\ resp = [to |-> "none", arg |-> None, status |-> 0, body |-> <<>>]
    /\ apiCalls = 0
    /\ fileWrites = 0
    /\ issued = [outlines |-> {}, drafts |-> {}]

Init ==
    /\ voiceFile \in VoiceFiles
    /\ ServerInit
    /\ response_text = <<>>
    /\ json_str = <<>>
    /\ outline_data = [ok |-> FALSE, error |-> "none"]
    /\ idea = IdeaA
    /\ prompt = NoPrompt
    /\ pc = "serve"

\* voiceprint = VoicePrint(VOICEPRINT_PATH) at import: a parse failure is fatal
Startup ==
    /\ proc = "starting"
    /\ LET loaded == LoadVoiceprint(voiceFile)
       IN  IF loaded.ok
           THEN proc' = "up" /\ params' = loaded.params
           ELSE proc' = "crashed" /\ params' = params
    /\ UNCHANGED <<voiceFile, clock, outlines, drafts, inflight, resp, apiCalls,
                   fileWrites, issued, pureVars>>

\* A microsecond passes with no request arriving.
Tick ==
    /\ proc = "up"
    /\ clock < MaxClock
    /\ clock' = clock + 1
    /\ UNCHANGED <<voiceFile, proc, params, outlines, drafts, inflight, resp, apiCalls,
                   fileWrites, issued, pureVars>>

\* GET /healthz
Healthz ==
    /\ proc = "up"
    /\ resp' = Tagged("GET /healthz", None, Ok(HealthCheck(params)))
    /\ UNCHANGED <<voiceFile, proc, params, clock, outlines, drafts, inflight, apiCalls,
                   fileWrites, issued, pureVars>>

\* POST /v1/outlines up to the generation call: the prompt is built and sent
CreateOutline(t, i) ==
    /\ proc = "up"
    /\ t = FreeThread
    /\ clock < MaxClock
    /\ LET voice == GetVoicePrompt(params)
       IN  IF ~voice.ok
           THEN /\ resp' = Tagged("POST /v1/outlines", None, InternalServerError)
                /\ UNCHANGED <<inflight, apiCalls, clock>>
           ELSE /\ inflight' = [inflight EXCEPT ![t] =
                        [kind |-> "outline", request |-> i,
                         prompt |-> OutlinePrompt(i, voice)]]
                /\ apiCalls' = apiCalls + 1
                /\ clock' = clock + 1
                /\ UNCHANGED resp
    /\ UNCHANGED <<voiceFile, proc, params, outlines, drafts, fileWrites, issued,
                   pureVars>>

\* POST /v1/outlines from the return of the generation call to the response
OutlineReturns(t, outcome) ==
    /\ inflight[t].kind = "outline"
    /\ LET r == GenerateOutline(inflight[t].request, outcome, clock, outlines)
       IN  /\ outlines' = r.store
           /\ fileWrites' = fileWrites + (IF r.wrote THEN 1 ELSE 0)
           /\ resp' = Tagged("POST /v1/outlines", None, r.resp)
           /\ issued' = IF r.resp.status = 200
                        THEN [issued EXCEPT !.outlines = @ \cup {r.resp.body}]
                        ELSE issued
    /\ inflight' = [inflight EXCEPT ![t] = Idle]
    /\ UNCHANGED <<voiceFile, proc, params, clock, drafts, apiCalls, pureVars>>

\* POST /v1/drafts up to the generation call: validation, the outline loaded
\* for context, the prompt built and sent
CreateDraft(t, request) ==
    /\ proc = "up"
    /\ t = FreeThread
    /\ clock < MaxClock
    /\ LET loaded == LoadOutline(outlines, request.outline_id)
           voice == GetVoicePrompt(params)
       IN  IF ~ValidTargetLength(request.target_length)
           THEN /\ resp' = Tagged("POST /v1/drafts", request.target_length, ValidationError)
                /\ UNCHANGED <<inflight, apiCalls, clock>>
           ELSE IF ~loaded.ok \/ ~voice.ok
           THEN /\ resp' = Tagged("POST /v1/drafts", None, InternalServerError)
                /\ UNCHANGED <<inflight, apiCalls, clock>>
           ELSE /\ inflight' = [inflight EXCEPT ![t] =
                        [kind |-> "draft", request |-> request,
                         prompt |-> DraftPrompt(request, loaded.outline, voice)]]
                /\ apiCalls' = apiCalls + 1
                /\ clock' = clock + 1
                /\ UNCHANGED resp
    /\ UNCHANGED <<voiceFile, proc, params, outlines, drafts, fileWrites, issued,
                   pureVars>>

\* POST /v1/drafts from the return of the generation call to the response
DraftReturns(t, outcome) ==
    /\ inflight[t].kind = "draft"
    /\ LET r == GenerateDraft(inflight[t].request, outcome, clock, drafts)
       IN  /\ drafts' = r.store
           /\ fileWrites' = fileWrites + (IF r.wrote THEN 1 ELSE 0)
           /\ resp' = Tagged("POST /v1/drafts", None, r.resp)
           /\ issued' = IF r.resp.status = 200
                        THEN [issued EXCEPT !.drafts = @ \cup {r.resp.body}]
                        ELSE issued
    /\ inflight' = [inflight EXCEPT ![t] = Idle]
    /\ UNCHANGED <<voiceFile, proc, params, clock, outlines, apiCalls, pureVars>>

\* GET /v1/drafts/{draft_id}
ReadDraft(id) ==
    /\ proc = "up"
    /\ resp' = Tagged("GET /v1/drafts/{draft_id}", id, GetDraft(drafts, id))
    /\ UNCHANGED <<voiceFile, proc, params, clock, outlines, drafts, inflight, apiCalls,
                   fileWrites, issued, pureVars>>

\* GET /v1/outlines/{outline_id}
ReadOutline(id) ==
    /\ proc = "up"
    /\ resp' = Tagged("GET /v1/outlines/{outline_id}", id, GetOutline(outlines, id))
    /\ UNCHANGED <<voiceFile, proc, params, clock, outlines, drafts, inflight, apiCalls,
                   fileWrites, issued, pureVars>>

\* GET /v1/drafts?limit=N
ReadDrafts(limit) ==
    /\ proc = "up"
    /\ resp' = Tagged("GET /v1/drafts", limit, ListDrafts(drafts, limit))
    /\ UNCHANGED <<voiceFile, proc, params, clock, outlines, drafts, inflight, apiCalls,
                   fileWrites, issued, pureVars>>

Next ==
    \/ Startup
    \/ Tick
    \/ Healthz
    \/ \E t \in Threads, i \in Ideas : CreateOutline(t, i)
    \/ \E t \in Threads, o \in OutlineOutcomes : OutlineReturns(t, o)
    \/ \E t \in Threads, r \in DraftRequests : CreateDraft(t, r)
    \/ \E t \in Threads, o \in DraftOutcomes : DraftReturns(t, o)
    \/ \E id \in PathIds : ReadDraft(id)
    \/ \E id \in PathIds : ReadOutline(id)
    \/ \E n \in Limits : ReadDrafts(n)

Spec == Init /\ [][Next]_vars

\* ------------------------------------------- specification: reply parsing
\* generate_outline's extraction and parse, applied to every canned reply.
InitParse ==
    /\ voiceFile = "absent"
    /\ ServerInit
    /\ response_text \in Replies
    /\ json_str = <<>>
    /\ outline_data = [ok |-> FALSE, error |-> "none"]
    /\ idea = IdeaA
    /\ prompt = NoPrompt
    /\ pc = "reply"

\* "Try to extract JSON (Claude might wrap it in markdown)"
Extract ==
    /\ pc = "reply"
    /\ json_str' = ExtractJson(response_text)
    /\ pc' = "extracted"
    /\ UNCHANGED <<serverVars, response_text, outline_data, idea, prompt>>

\* outline_data = json.loads(json_str)
Loads ==
    /\ pc = "extracted"
    /\ outline_data' = JsonLoads(json_str)
    /\ pc' = "loaded"
    /\ UNCHANGED <<serverVars, response_text, json_str, idea, prompt>>

NextParse == Extract \/ Loads

SpecParse == InitParse /\ [][NextParse]_vars

\* ----------------------------------------- specification: prompt building
UrlTexts(base) == {Absent, Some(<<>>), Some(Text(base, 1))}
SummaryLens == {0} \cup ((SummaryLimit - MaxExtra)..(SummaryLimit + MaxExtra))
SummaryTexts(base) == {Absent} \cup {Some(Text(base, n)) : n \in SummaryLens}

PromptIdeas ==
    [ title : {"T"}, content : SummaryTexts(0), source_url : UrlTexts(20000),
      url : UrlTexts(30000), context : SummaryTexts(10000) ]

DefaultVoice == GetVoicePrompt([t |-> "object", v |-> DefaultVoiceprint])
SampleOutline == OutlineDoc(IdeaA, JsonValue.full.v, 1)

InitPrompt ==
    /\ voiceFile = "absent"
    /\ ServerInit
    /\ response_text = <<>>
    /\ json_str = <<>>
    /\ outline_data = [ok |-> FALSE, error |-> "none"]
    /\ idea \in PromptIdeas
    /\ prompt = NoPrompt
    /\ pc = "idea"

\* generate_outline: "Build outline prompt"
BuildOutlinePrompt ==
    /\ pc = "idea"
    /\ prompt' = OutlinePrompt(idea, DefaultVoice)
    /\ pc' = "built"
    /\ UNCHANGED <<serverVars, response_text, json_str, outline_data, idea>>

\* generate_draft: "Build draft prompt"
BuildDraftPrompt(outline, target_length, include_hashtags) ==
    /\ pc = "idea"
    /\ prompt' = DraftPrompt([ outline_id |-> NoneId, idea |-> idea,
                               target_length |-> target_length,
                               include_hashtags |-> include_hashtags ],
                             outline, DefaultVoice)
    /\ pc' = "built"
    /\ UNCHANGED <<serverVars, response_text, json_str, outline_data, idea>>

NextPrompt ==
    \/ BuildOutlinePrompt
    \/ \E o \in {NoOutline, SampleOutline}, n \in {MinTargetLength, DefaultTargetLength},
          h \in BOOLEAN : BuildDraftPrompt(o, n, h)

SpecPrompt == InitPrompt /\ [][NextPrompt]_vars

\* ================================================================ claims
Count(store) == Cardinality(DOMAIN store)
InRange(n) == MinTargetLength <= n /\ n <= MaxTargetLength

\* ---------------------------------------------------------------------- C1
\* C1: any two successful create requests of one kind receive distinct
\* identifiers, so that every file write makes a new file, and every document
\* a create request returned is still stored under its identifier unchanged.
C1_DistinctIdentifiers ==
    /\ fileWrites = Count(outlines) + Count(drafts)
    /\ \A d \in issued.outlines :
            d.outline_id \in DOMAIN outlines /\ outlines[d.outline_id] = d
    /\ \A d \in issued.drafts :
            d.draft_id \in DOMAIN drafts /\ drafts[d.draft_id] = d

\* ---------------------------------------------------------------------- C2
\* The message each failing upstream outcome surfaces with.
FailureMessage(outcome) ==
    IF outcome.raised THEN "APIError"
    ELSE IF outcome.text = <<Prose, "full">> THEN "JSONDecodeError"
    ELSE IF outcome.text = <<"array">> THEN "TypeError"
    ELSE IF outcome.text = <<"nosections">> THEN "sections"
    ELSE IF outcome.text = <<"noheading">> THEN "heading"
    ELSE IF outcome.text = <<"nokeypoints">> THEN "key_points"
    ELSE IF outcome.text = <<"nohook">> THEN "hook"
    ELSE IF outcome.text = <<"noclosing">> THEN "closing"
    ELSE ""

FailingOutlineOutcomes == {o \in OutlineOutcomes : FailureMessage(o) # ""}

\* Whatever failing outcome the generation call of a waiting request has, the
\* handler answers 500 with that failure's message and writes nothing.
C2_FailureAnswer ==
    \A t \in Threads :
        /\ inflight[t].kind = "outline" =>
            \A o \in FailingOutlineOutcomes :
                LET r == GenerateOutline(inflight[t].request, o, clock, outlines)
                IN  /\ r.resp = [status |-> 500,
                                 body |-> <<"Outline generation failed: ", FailureMessage(o)>>]
                    /\ r.store = outlines
                    /\ ~r.wrote
        /\ inflight[t].kind = "draft" =>
                LET r == GenerateDraft(inflight[t].request, Raised, clock, drafts)
                IN  /\ r.resp = [status |-> 500,
                                 body |-> <<"Draft generation failed: ", "APIError">>]
                    /\ r.store = drafts
                    /\ ~r.wrote

\* A step in which a waiting request is answered with something other than 200
\* answers 500, frees the worker, calls the generation API no more and changes
\* no store.
C2_FailureStep ==
    \A t \in Threads :
        (inflight[t] # Idle /\ inflight'[t] = Idle /\ resp'.status # 200) =>
            /\ resp'.status = 500
            /\ resp'.to = (IF inflight[t].kind = "outline"
                           THEN "POST /v1/outlines" ELSE "POST /v1/drafts")
            /\ apiCalls' = apiCalls
            /\ fileWrites' = fileWrites
            /\ outlines' = outlines
            /\ drafts' = drafts

\* C2: when generation fails, POST /v1/outlines (and POST /v1/drafts when the
\* call raises) answers 500 with the underlying message, makes no second
\* generation call and leaves the stores as they were.
C2_GenerationFailure == [](C2_FailureAnswer) /\ [][C2_FailureStep]_vars

\* A failed outline request has been answered while a document is on disk.
C2_Witness ==
    /\ resp.to = "POST /v1/outlines"
    /\ resp.status = 500
    /\ resp.body = <<"Outline generation failed: ", "key_points">>
    /\ Count(outlines) = 1
    /\ fileWrites = 1
    /\ apiCalls = 2

\* ---------------------------------------------------------------------- C3
IsRead(r) ==
    r.to \in {"GET /healthz", "GET /v1/drafts/{draft_id}",
              "GET /v1/outlines/{outline_id}", "GET /v1/drafts"}

C3_Step ==
    /\ apiCalls' - apiCalls \in {0, 1}
    /\ fileWrites' - fileWrites \in {0, 1}
    /\ \A t \in Threads :
        /\ (inflight[t] = Idle /\ inflight'[t] # Idle) => apiCalls' = apiCalls + 1
        /\ (inflight[t].kind = "outline" /\ inflight'[t] = Idle /\ resp'.status = 200) =>
                /\ apiCalls' = apiCalls
                /\ Count(outlines') = Count(outlines) + 1
                /\ drafts' = drafts
        /\ (inflight[t].kind = "draft" /\ inflight'[t] = Idle /\ resp'.status = 200) =>
                /\ apiCalls' = apiCalls
                /\ Count(drafts') = Count(drafts) + 1
                /\ outlines' = outlines
    /\ (resp' # resp /\ IsRead(resp')) =>
            UNCHANGED <<apiCalls, fileWrites, outlines, drafts, inflight>>

\* C3: every request makes at most one generation call and at most one file
\* write; a successful POST makes exactly one call and adds exactly one file
\* to its own store and none to the other; the GET endpoints make no call and
\* write no file.
C3_OneCallOneFile == [][C3_Step]_vars

C5_TargetLengthValidated ==
    /\ \A n \in TargetLengths : ValidTargetLength(n) <=> InRange(n)
    /\ (resp.to = "POST /v1/drafts" /\ resp.status = 422) => ~InRange(resp.arg)
    /\ \A t \in Threads :
        inflight[t].kind = "draft" => InRange(inflight[t].request.target_length)
    /\ \A f \in DOMAIN drafts : InRange(drafts[f].metadata.target_length)
    /\ \A d \in issued.drafts : InRange(d.metadata.target_length)

\* A request for 1301 words has been rejected with nothing called or written,
\* and a request for 400 words waits on the generation API.
C5_Witness ==
    /\ resp.to = "POST /v1/drafts"
    /\ resp.status = 422
    /\ resp.arg = MaxTargetLength + 1
    /\ apiCalls = 1
    /\ fileWrites = 0
    /\ \E t \in Threads :
        inflight[t].kind = "draft" /\ inflight[t].request.target_length = MinTargetLength

\* ---------------------------------------------------------------------- C6
\* C6: GET by identifier answers 404 naming the identifier exactly when the
\* store holds no file of that name, and otherwise returns the document the
\* create request for that identifier persisted and returned.
C6_ReadBack ==
    proc = "up" =>
        /\ \A id \in PathIds :
            /\ GetDraft(drafts, id).status = 404 <=> id \notin DOMAIN drafts
            /\ GetDraft(drafts, id).status = 404 => GetDraft(drafts, id).body[2] = id
            /\ GetOutline(outlines, id).status = 404 <=> id \notin DOMAIN outlines
            /\ GetOutline(outlines, id).status = 404 => GetOutline(outlines, id).body[2] = id
        /\ \A d \in issued.drafts : GetDraft(drafts, d.draft_id) = Ok(d)
        /\ \A d \in issued.outlines : GetOutline(outlines, d.outline_id) = Ok(d)

\* ---------------------------------------------------------------------- C7
\* What a listing answers for limit n, given how many entries it may hold:
\* that many entries, all on disk, in descending identifier order, every
\* listed identifier greater than every unlisted one, returned the number of
\* entries and total the number of drafts on disk.
ListingOf(n, size) ==
    LET r == ListDrafts(drafts, n).body
        listed == {r.drafts[k].draft_id : k \in 1..Len(r.drafts)}
    IN  /\ Len(r.drafts) = size
        /\ r.returned = Len(r.drafts)
        /\ r.total = Count(drafts)
        /\ listed \subseteq DOMAIN drafts
        /\ \A j, k \in 1..Len(r.drafts) :
                j < k => StampLess(r.drafts[k].draft_id.stamp, r.drafts[j].draft_id.stamp)
        /\ \A x \in listed, y \in DOMAIN drafts \ listed : StampLess(y.stamp, x.stamp)

\* C7: for every limit N the listing holds at most N entries (none when N is
\* below one), the drafts with the greatest identifiers in descending order,
\* with returned the number of entries and total the number of drafts on disk.
C7_AtMostLimit ==
    proc = "up" =>
        \A n \in Limits :
            /\ Len(ListDrafts(drafts, n).body.drafts) <= Max(n, 0)
            /\ ListingOf(n, Len(ListDrafts(drafts, n).body.drafts))

\* ---------------------------------------------------------------------- C8
\* The reply from position from on, up to the next fence marker or the end,
\* without the white space at its two ends.
Interior(text, from) ==
    LET fences == {k \in from..Len(text) : text[k] = Fence}
        to == IF fences = {} THEN Len(text)
              ELSE (CHOOSE k \in fences : \A m \in fences : k <= m) - 1
        inked == {k \in from..to : text[k] # Space}
    IN  IF inked = {} THEN <<>>
        ELSE SubSeq(text, CHOOSE k \in inked : \A m \in inked : k <= m,
                          CHOOSE k \in inked : \A m \in inked : k >= m)

TaggedFences(text) ==
    {k \in 1..(Len(text) - 1) : text[k] = Fence /\ text[k + 1] = JsonTag}
Fences(text) == {k \in 1..Len(text) : text[k] = Fence}
First(S) == CHOOSE k \in S : \A m \in S : k <= m

\* C8: the payload is the interior of the first fenced block tagged json when
\* the reply has one, else the interior of the first fenced block when it has
\* one, else the whole reply verbatim.
C8_ExtractionOrder ==
    pc # "reply" =>
        json_str =
            IF TaggedFences(response_text) # {}
            THEN Interior(response_text, First(TaggedFences(response_text)) + 2)
            ELSE IF Fences(response_text) # {}
            THEN Interior(response_text, First(Fences(response_text)) + 1)
            ELSE response_text

\* A reply that opens an untagged block around prose and then a block tagged
\* json has been reduced to the interior of the tagged block.
C8_Witness ==
    /\ pc = "extracted"
    /\ response_text = <<Fence, Prose, Fence, JsonTag, "full">>
    /\ json_str = <<"full">>

\* ---------------------------------------------------------------------- C9
\* C9 as stated: whatever the voice file holds, /healthz reports
\* voiceprint_loaded true.
C9_AlwaysLoaded ==
    resp.to = "GET /healthz" => resp.body.voiceprint_loaded = TRUE

\* C9 amended: a file that fails to parse stops the process, so /healthz is
\* never served; an absent file yields the defaults; /healthz reports
\* voiceprint_loaded true for every content but the JSON text null, which loads
\* as None and is reported false.
C9_LoadedUnlessNull ==
    /\ proc = "up" => voiceFile # "malformed"
    /\ voiceFile = "malformed" => resp.to = "none"
    /\ (proc = "up" /\ voiceFile = "absent") => params.v = DefaultVoiceprint
    /\ proc = "up" => HealthCheck(params).voiceprint_loaded = (voiceFile # "null")
    /\ resp.to = "GET /healthz" => resp.body.voiceprint_loaded = (voiceFile # "null")

\* /healthz has answered for a voice file holding an empty JSON object.
C9_Witness ==
    /\ resp.to = "GET /healthz"
    /\ voiceFile = "emptyobject"
    /\ resp.body.voiceprint_loaded

\* --------------------------------------------------------------------- C10
\* The first n characters of s.
IsPrefixOfLength(p, s, n) ==
    /\ Len(p) = Min(n, Len(s))
    /\ \A k \in 1..Len(p) : p[k] = s[k]

\* C10 as stated: the url when present, else source_url, else empty; the first
\* 500 characters of content when present, else of context, else empty.
C10_PresentWins ==
    pc = "built" =>
        /\ prompt.source =
            (IF idea.url.present THEN idea.url.text
             ELSE IF idea.source_url.present THEN idea.source_url.text ELSE <<>>)
        /\ IsPrefixOfLength(prompt.summary,
                            IF idea.content.present THEN idea.content.text
                            ELSE IF idea.context.present THEN idea.context.text ELSE <<>>,
                            SummaryLimit)

\* C10 amended: in both prompts the source is url when present and not empty,
\* else source_url when present and not empty, else empty; the summary is the
\* first 500 characters of content when present and not empty, else of context
\* when present and not empty, else empty.
C10_NonEmptyWins ==
    pc = "built" =>
        /\ prompt.source =
            (IF idea.url.present /\ Len(idea.url.text) > 0 THEN idea.url.text
             ELSE IF idea.source_url.present /\ Len(idea.source_url.text) > 0
             THEN idea.source_url.text ELSE <<>>)
        /\ IsPrefixOfLength(prompt.summary,
                            IF idea.content.present /\ Len(idea.content.text) > 0
                            THEN idea.content.text
                            ELSE IF idea.context.present /\ Len(idea.context.text) > 0
                            THEN idea.context.text ELSE <<>>,
                            SummaryLimit)

\* A draft prompt has been built for an idea with no url and a content longer
\* than the limit: source_url and the first 500 characters of content are in it.
C10_Witness ==
    /\ pc = "built"
    /\ prompt.task = "draft"
    /\ ~idea.url.present
    /\ idea.source_url.present
    /\ prompt.source = idea.source_url.text
    /\ Len(prompt.source) = 1
    /\ idea.content.present
    /\ Len(idea.content.text) = SummaryLimit + 1
    /\ Len(prompt.summary) = SummaryLimit

====
